---- MODULE Spec2Model ----
(***************************************************************************)
(* Captive-portal access control: the device state machine of the portal   *)
(* (captive-portal/app/app.py), the pool policy (models.py, kea-sync.py),  *)
(* the DHCP reservation client (kea_integration.py), the RADIUS CoA client *)
(* (radius_coa.py) and the pool reconciler (kea/scripts/kea-sync.py),      *)
(* together with the reservation table of the DHCP server they drive.      *)
(*                                                                         *)
(* Time is counted in minutes and advances in steps of TickMinutes.        *)
(* Every request handler is one action: its database commit and its        *)
(* synchronous dispatch to a protocol client.  The reconciler issues one   *)
(* control-channel command per step, so handlers interleave with a pass.   *)
(***************************************************************************)
EXTENDS Integers, Sequences, FiniteSets, TLC

(* ------------------------------ bounds --------------------------------- *)

\* Tokens the portal may issue in one behaviour (secrets.token_urlsafe draws).
MaxTokens == 2
\* Ages (minutes since first_seen) saturate here; beyond it no policy changes.
MaxAge == 30

(* --------------------------- program constants ------------------------- *)

VLAN_FRIARS == 10
VLAN_STAFF == 20
VLAN_STUDENTS == 30
VLAN_GUESTS == 40
VLAN_CONTRACTORS == 50
VLAN_VOLUNTEERS == 60
VLAN_IOT == 70
VLAN_RESTRICTED == 90
VLAN_UNREGISTERED == 99
\* detect_connection_type: the registration VLAN of wired MAC auth.
WIRED_VLAN == 99
\* get_devices_needing_update: row[3] or 99.
SYNC_DEFAULT_VLAN == 99
\* Python None of an integer column / of a token column.
NoVlan == 0
NoToken == 0
\* The age of a row whose first_seen is NULL.
NoAge == -1
\* Setting verification_timeout_minutes, default '15'.
VerificationTimeoutMinutes == 15
\* models.py: timedelta(minutes=30); kea-sync.py: age_seconds < 1800.
PoolThresholdMinutes == 30
PoolThresholdSeconds == 1800
SecondsPerMinute == 60
\* kea_integration.py: the registered pool, .5 - .127.
POOL_FIRST == 5
POOL_LAST == 127

TickMinutes == VerificationTimeoutMinutes

\* The MAC addresses of the devices table, and those of them whose owners
\* send requests to the portal.
MACS == {"m1", "m2"}
CLIENTS == {"m1"}
\* e1: pre-authorized, inside its access window.  e2: no identity record at
\* the start.  e3: pre-authorized, expiry_date in the past.
EMAILS == {"e1", "e2", "e3"}
\* The identity an administrator edits in admin_edit_user and the roles
\* (User.status) given to it: one the VLAN map knows, one it does not.
EDITED == {"e1"}
ROLES == {"staff", "visiting"}
NoUser == "none"
NoDevice == [status |-> "absent"]

\* The third octet of the client address, as detect_connection_type reads it.
DETECTED == {VLAN_GUESTS, WIRED_VLAN, NoVlan}
TOKENS == 1..MaxTokens
\* What the DHCP control channel does with one command: serve it, fail in
\* transport (socket error, timeout), or answer a generic error result.
KEA_FAULTS == {"none", "down", "error"}
\* What the RADIUS exchange yields: a reply with code CoA-ACK, CoA-NAK or
\* Disconnect-ACK, no reply (SendPacket raises Timeout), or no request sent
\* at all (get_radius_client returned None, or building the request raised).
COA_REPLIES == {"ack", "nak", "disconnect_ack", "timeout", "no_client"}
\* How the one protocol exchange of a request handler goes, whichever client
\* the handler calls: served, refused by the peer, or no answer.
IO == {"ok", "refused", "timeout"}
KeaFault(io) == IF io = "ok" THEN "none" ELSE IF io = "refused" THEN "error" ELSE "down"
CoaReply(io) == IF io = "ok" THEN "ack" ELSE IF io = "refused" THEN "nak" ELSE "timeout"

VARIABLES
    devices,       \* the devices table: MAC -> row, or NoDevice
    users,         \* the users table: email -> role (User.status), or NoUser
    windows,       \* the users table: email -> where today lies in the access
                   \* window begin_date..expiry_date: "before", "in", "after"
    reservations,  \* the host reservations of the DHCP server
    nextTok,       \* the next value secrets.token_urlsafe yields
    spentTokens,   \* history: <<kind, token>> of every verify or unregister
                   \* call whose token matched a device
    granted,       \* history: [mac, text] for the MACs whose latest event was a
                   \* wifi registration without verification whose DHCP register
                   \* reported success, with the text of the server's answer
    recPc,         \* reconciler: "idle", or the next command of sync_device
    recQueue,      \* reconciler: the rows of the pass still to be synced
    requests,      \* the registration_requests table: rows [mac, email, status]
    config,        \* the vlan_mappings row of 'staff' and the setting
                   \* 'auto_approve_vlans'
    passState,     \* history: "clean" while, since the pass began, no
                   \* handler ran, no command failed and the clock stood
    leases,        \* the leases of the DHCP server: address -> MAC, or "free"
    lastCall       \* history: the latest call of the portal's DHCP client
                   \* that is followed to its end: a lease renewal with the
                   \* commands it sent and what it returned, or a call that
                   \* has not returned

vars == <<devices, users, windows, reservations, nextTok, spentTokens, granted,
          recPc, recQueue, requests, config, passState, leases, lastCall>>

Min(a, b) == IF a < b THEN a ELSE b

(* ------------------------------ configuration -------------------------- *)

\* get_vlan_map(): the defaults, with the row admin_vlan_config has stored
\* for 'staff'.
get_vlan_map ==
    [s \in {"friars", "staff", "students", "guests", "contractors", "volunteers",
            "iot", "restricted", "unregistered"} |->
        CASE s = "friars" -> VLAN_FRIARS
          [] s = "staff" -> config.staff
          [] s = "students" -> VLAN_STUDENTS
          [] s = "guests" -> VLAN_GUESTS
          [] s = "contractors" -> VLAN_CONTRACTORS
          [] s = "volunteers" -> VLAN_VOLUNTEERS
          [] s = "iot" -> VLAN_IOT
          [] s = "restricted" -> VLAN_RESTRICTED
          [] OTHER -> VLAN_UNREGISTERED]

\* vlan_map.get(user.status, vlan_map['guests'])
RoleVlan(role) ==
    IF role \in DOMAIN get_vlan_map THEN get_vlan_map[role] ELSE get_vlan_map["guests"]

\* The settings before admin_vlan_config has stored anything: the default
\* '40,30,60' of get_auto_approve_vlans.
DefaultConfig == [staff |-> VLAN_STAFF, auto |-> {40, 30, 60}]

\* get_auto_approve_vlans()
get_auto_approve_vlans == config.auto

\* The VLANs of ssid_map in detect_connection_type.
SsidVlans == {10, 20, 30, 40, 50, 60, 70, 90}

\* detect_connection_type(ip_address), on the third octet of the address.
detect_connection_type(octet) ==
    IF octet = NoVlan THEN [conn |-> "unknown", vlan |-> NoVlan]
    ELSE IF octet = WIRED_VLAN THEN [conn |-> "wired", vlan |-> octet]
    ELSE IF octet \in SsidVlans THEN [conn |-> "wifi", vlan |-> octet]
    ELSE [conn |-> "unknown", vlan |-> NoVlan]

(* ------------------------------ pool policy ---------------------------- *)

\* Device.get_pool_assignment (models.py): a row without first_seen skips the
\* age test.
get_pool_assignment(d) ==
    IF d.status = "approved" THEN "registered"
    ELSE IF d.age # NoAge /\ d.age < PoolThresholdMinutes THEN "newly_unregistered"
    ELSE "old_unregistered"

\* get_devices_needing_update: float(row[4]) if row[4] else 0, where row[4] is
\* EXTRACT(EPOCH FROM (NOW() - first_seen)), NULL for a NULL first_seen.
AgeSeconds(age) == IF age = NoAge THEN 0 ELSE age * SecondsPerMinute

\* A policy whose 30-minute boundary would still be "newly".
determine_pool_Inclusive(row) ==
    IF row.status = "approved" THEN "registered"
    ELSE IF row.age_seconds <= PoolThresholdSeconds THEN "newly_unregistered"
    ELSE "old_unregistered"

\* KeaSync.determine_pool (kea-sync.py), on a row of the pass's snapshot.
determine_pool(row) ==
    IF row.status = "approved" THEN "registered"
    ELSE IF row.age_seconds < PoolThresholdSeconds THEN "newly_unregistered"
    ELSE "old_unregistered"

(* --------------------------- DHCP server (Kea) ------------------------- *)

NoRes == [mac |-> "none"]

\* The reservation of (mac, subnet) in table tbl, or NoRes.
Lookup(tbl, mac, subnet) ==
    IF \E r \in tbl : r.mac = mac /\ r.subnet = subnet
    THEN CHOOSE r \in tbl : r.mac = mac /\ r.subnet = subnet
    ELSE NoRes

\* A server that would store a second reservation under a key already taken.
KeaAdd_NoDuplicateCheck(tbl, res, fault) ==
    IF fault = "down" THEN [tbl |-> tbl, answered |-> FALSE, result |-> 1, text |-> ""]
    ELSE IF fault = "error" THEN [tbl |-> tbl, answered |-> TRUE, result |-> 1, text |-> "error"]
    ELSE [tbl |-> tbl \cup {res}, answered |-> TRUE, result |-> 0, text |-> "ok"]

\* reservation-add: result 0, or result 1 "duplicate" when the key is taken.
KeaAdd(tbl, res, fault) ==
    IF fault = "down" THEN [tbl |-> tbl, answered |-> FALSE, result |-> 1, text |-> ""]
    ELSE IF fault = "error" THEN [tbl |-> tbl, answered |-> TRUE, result |-> 1, text |-> "error"]
    ELSE IF Lookup(tbl, res.mac, res.subnet) # NoRes
         THEN [tbl |-> tbl, answered |-> TRUE, result |-> 1, text |-> "duplicate"]
    ELSE [tbl |-> tbl \cup {res}, answered |-> TRUE, result |-> 0, text |-> "ok"]

\* reservation-del: result 0 when deleted, 3 when there was none.
KeaDel(tbl, mac, subnet, fault) ==
    IF fault = "down" THEN [tbl |-> tbl, answered |-> FALSE, result |-> 1, text |-> ""]
    ELSE IF fault = "error" THEN [tbl |-> tbl, answered |-> TRUE, result |-> 1, text |-> "error"]
    ELSE IF Lookup(tbl, mac, subnet) = NoRes
         THEN [tbl |-> tbl, answered |-> TRUE, result |-> 3, text |-> "not found"]
    ELSE [tbl |-> {r \in tbl : ~(r.mac = mac /\ r.subnet = subnet)},
          answered |-> TRUE, result |-> 0, text |-> "deleted"]

\* reservation-get: result 0 with the reservation, 3 when there is none.
KeaGet(tbl, mac, subnet, fault) ==
    IF fault = "down" THEN [answered |-> FALSE, result |-> 1, res |-> NoRes]
    ELSE IF fault = "error" THEN [answered |-> TRUE, result |-> 1, res |-> NoRes]
    ELSE IF Lookup(tbl, mac, subnet) = NoRes
         THEN [answered |-> TRUE, result |-> 3, res |-> NoRes]
    ELSE [answered |-> TRUE, result |-> 0, res |-> Lookup(tbl, mac, subnet)]

\* The addresses the server has leases for, as force_lease_renewal reads an
\* address: its third octet and its last octet.
LEASE_IPS ==
    {[third |-> VLAN_GUESTS, last |-> POOL_FIRST],
     [third |-> VLAN_GUESTS, last |-> POOL_LAST],
     [third |-> VLAN_UNREGISTERED, last |-> POOL_FIRST]}

NoIp == [third |-> NoVlan]
NoLease == [ip |-> NoIp]
NoLeases == [ip \in LEASE_IPS |-> "free"]
NoCall == [op |-> "none"]

\* lease4-get by hardware address: the answers the server may give, result 0
\* with one lease of the MAC, 3 when it has none.
KeaLeaseGet(lt, mac, fault) ==
    IF fault = "down" THEN {[answered |-> FALSE, result |-> 1, lease |-> NoLease]}
    ELSE IF fault = "error" THEN {[answered |-> TRUE, result |-> 1, lease |-> NoLease]}
    ELSE IF \A ip \in LEASE_IPS : lt[ip] # mac
         THEN {[answered |-> TRUE, result |-> 3, lease |-> NoLease]}
    ELSE {[answered |-> TRUE, result |-> 0, lease |-> [ip |-> ip]] :
             ip \in {i \in LEASE_IPS : lt[i] = mac}}

\* lease4-del by address: result 0 when deleted, 3 when there was none.
KeaLeaseDel(lt, ip, fault) ==
    IF fault = "down" THEN [tbl |-> lt, answered |-> FALSE, result |-> 1]
    ELSE IF fault = "error" THEN [tbl |-> lt, answered |-> TRUE, result |-> 1]
    ELSE IF ip \notin LEASE_IPS \/ lt[ip] = "free"
         THEN [tbl |-> lt, answered |-> TRUE, result |-> 3]
    ELSE [tbl |-> [lt EXCEPT ![ip] = "free"], answered |-> TRUE, result |-> 0]

\* The pool the server serves a reservation from: its client-class, or the
\* registered user-context a class expression of the server evaluates.
LivePool(r) ==
    IF r.cls = "REGISTERED" THEN "registered"
    ELSE IF r.cls = "NEWLY_UNREGISTERED" THEN "newly_unregistered"
    ELSE IF r.cls = "OLD_UNREGISTERED" THEN "old_unregistered"
    ELSE IF r.ctx THEN "registered"
    ELSE "none"

(* --------------------------- control channel --------------------------- *)

\* How the peer of one control-channel call behaves: it answers and closes,
\* it refuses the connection, or it accepts and then neither answers nor
\* closes.
PEERS == {"replies", "refuses", "silent"}

\* The timeout of a socket on which settimeout was never called (Python None).
NoTimeout == "none"
\* requests.post(..., timeout=10)
HTTP_TIMEOUT == 10

\* One request/response exchange under a timeout setting: the reply is
\* returned, an exception is raised (connection error, or the timeout has
\* elapsed), or the call stays in recv for ever.
Exchange(timeout, peer) ==
    IF peer = "replies" THEN "reply"
    ELSE IF peer = "refuses" THEN "raises"
    ELSE IF timeout = NoTimeout THEN "blocks"
    ELSE "raises"

\* KeaIntegration._send_command_socket: blocking AF_UNIX socket, recv until
\* the peer closes.
send_command_socket(peer) == Exchange(NoTimeout, peer)

\* KeaIntegration._send_command_http
send_command_http(peer) == Exchange(HTTP_TIMEOUT, peer)

\* KeaSync.send_kea_command: blocking AF_UNIX socket, recv until the peer
\* closes; an exception is turned into None.
send_kea_command(peer) == Exchange(NoTimeout, peer)

(* ---------------------- DhcpReservationClient (portal) ----------------- *)

\* A client that takes every non-zero result for a failure.
IsDuplicateText_Never(text) == FALSE

\* 'duplicate' in error_text.lower() or 'already exists' in error_text.lower()
IsDuplicateText(text) == text \in {"duplicate", "already exists"}

\* KeaIntegration.register_mac(mac, vlan), no explicit ip_address.
register_mac(tbl, mac, vlan, fault) ==
    LET resp == KeaAdd(tbl, [mac |-> mac, subnet |-> vlan, cls |-> "none",
                             ctx |-> TRUE, dns |-> "none"], fault)
    IN  [tbl |-> resp.tbl, text |-> resp.text,
         ok  |-> resp.answered /\ (resp.result = 0 \/ IsDuplicateText(resp.text))]

\* An explicit ip_address argument, as register_mac reads it: the number of
\* parts ip_address.split('.') yields, whether int() accepts the last part,
\* the third octet and the last octet.
IPS(vlan) ==
    {[nparts |-> 4, numeric |-> TRUE, third |-> vlan, last |-> o] :
        o \in {POOL_FIRST - 1, POOL_FIRST, POOL_LAST, POOL_LAST + 1}}
    \cup {[nparts |-> 4, numeric |-> TRUE, third |-> vlan + 1, last |-> POOL_FIRST],
          [nparts |-> 4, numeric |-> FALSE, third |-> vlan, last |-> 0],
          [nparts |-> 3, numeric |-> TRUE, third |-> vlan, last |-> vlan],
          [nparts |-> 5, numeric |-> TRUE, third |-> vlan, last |-> POOL_FIRST]}

\* KeaIntegration.register_mac(mac, vlan, ip_address=ip): the last octet is
\* validated only when the address splits into four parts (int() raising on
\* a non-numeric part is caught and returns False); sent tells whether the
\* reservation-add command went to the server.
register_mac_with_ip(tbl, mac, vlan, ip, fault) ==
    IF ip.nparts = 4 /\ ~ip.numeric
    THEN [tbl |-> tbl, ok |-> FALSE, sent |-> FALSE]
    ELSE IF ip.nparts = 4 /\ ~(POOL_FIRST <= ip.last /\ ip.last <= POOL_LAST)
    THEN [tbl |-> tbl, ok |-> FALSE, sent |-> FALSE]
    ELSE LET reg == register_mac(tbl, mac, vlan, fault)
         IN  [tbl |-> reg.tbl, ok |-> reg.ok, sent |-> TRUE]

\* A client that takes "not found" (result 3) for a failure.
unregister_mac_OnlyDeleted(tbl, mac, vlan, fault) ==
    LET resp == KeaDel(tbl, mac, vlan, fault)
    IN  [tbl |-> resp.tbl, ok |-> resp.answered /\ resp.result = 0]

\* KeaIntegration.unregister_mac(mac, vlan).
unregister_mac(tbl, mac, vlan, fault) ==
    LET resp == KeaDel(tbl, mac, vlan, fault)
    IN  [tbl |-> resp.tbl, ok |-> resp.answered /\ resp.result \in {0, 3}]

\* KeaIntegration.get_lease_by_mac(mac), given the answer to its lease4-get:
\* the lease, or NoLease (Python None) on any other result or exception.
get_lease_by_mac(resp) ==
    IF resp.answered /\ resp.result = 0 THEN resp.lease ELSE NoLease

\* A renewal that would delete the reservations of the MAC with the lease.
force_lease_renewal_DropsReservation(lt, tbl, mac, ip_address, resp, fault) ==
    [leases |-> [ip \in LEASE_IPS |-> IF lt[ip] = mac THEN "free" ELSE lt[ip]],
     tbl |-> {r \in tbl : r.mac # mac}, ok |-> TRUE,
     sent |-> <<"lease4-get", "lease4-del", "reservation-del">>]

\* KeaIntegration.force_lease_renewal(mac, ip_address): without an address
\* the lease of the MAC is looked up (resp is the answer to that lease4-get),
\* no lease returns False; then lease4-del for the address, True on result 0.
\* tbl is the reservation table, sent the commands that went to the server.
force_lease_renewal(lt, tbl, mac, ip_address, resp, fault) ==
    LET lookup == ip_address = NoIp
        lease  == get_lease_by_mac(resp)
        ip     == IF lookup THEN lease.ip ELSE ip_address
        asked  == IF lookup THEN <<"lease4-get">> ELSE <<>>
        del    == KeaLeaseDel(lt, ip, fault)
    IN  IF lookup /\ lease = NoLease
        THEN [leases |-> lt, tbl |-> tbl, ok |-> FALSE, sent |-> asked]
        ELSE [leases |-> del.tbl, tbl |-> tbl,
              ok |-> del.answered /\ del.result = 0,
              sent |-> Append(asked, "lease4-del")]

\* What register_mac, unregister_mac, get_reservation, get_lease_by_mac and
\* force_lease_renewal hand to their caller over the control socket that
\* get_kea() configures: the value computed from the reply, False or None
\* when _send_command raised (each method catches Exception), or nothing
\* while _send_command has not returned.
ClientCall(peer) ==
    LET sent == send_command_socket(peer)
    IN  IF sent = "reply" THEN "value"
        ELSE IF sent = "raises" THEN "failure"
        ELSE "pending"

(* --------------------------- RadiusCoAClient --------------------------- *)

\* A client that takes any reply of the server for a success.
send_coa_disconnect_AnyReply(reply) == reply \in {"ack", "nak", "disconnect_ack"}

\* send_coa_change / send_coa_disconnect: True iff the reply is CoA-ACK.
send_coa_change(reply) == reply = "ack"
send_coa_disconnect(reply) == reply = "ack"

(* ------------------------------ persisted state ------------------------ *)

\* User.begin_date / expiry_date against today.
UserWindow(email) == windows[email]

\* Device(mac_address=...): the column defaults of models.py.
NewDevice ==
    [status |-> "pending", user |-> NoUser, conn |-> "unknown", vlan |-> NoVlan,
     vtoken |-> NoToken, vleft |-> 0, utoken |-> NoToken, age |-> 0]

Exists(m) == devices[m] # NoDevice

\* Device.query.filter_by(verification_token=token).first()
ByVerificationToken(token) == {m \in MACS : Exists(m) /\ devices[m].vtoken = token}
\* Device.query.filter_by(unregister_token=token).first()
ByUnregisterToken(token) == {m \in MACS : Exists(m) /\ devices[m].utoken = token}

Init ==
    /\ devices = [m \in MACS |-> NoDevice]
    /\ users = [e \in EMAILS |-> IF e = "e2" THEN NoUser ELSE "staff"]
    /\ windows = [e \in EMAILS |-> IF e = "e3" THEN "after" ELSE "in"]
    /\ reservations = {}
    /\ nextTok = 1
    /\ spentTokens = {}
    /\ granted = {}
    /\ recPc = "idle"
    /\ recQueue = <<>>
    /\ requests = {}
    /\ config = DefaultConfig
    /\ passState = "dirty"
    /\ leases = NoLeases
    /\ lastCall = NoCall

RecVars == <<recPc, recQueue>>
LeaseVars == <<leases, lastCall>>

\* A request handler ran: the pass in progress (or just finished) no longer
\* saw a quiescent database.
Disturb == passState' = "dirty"

Granted(m) == \E g \in granted : g.mac = m
Ungrant(m) == {g \in granted : g.mac # m}

\* The registration that put m in granted stands while its row is unchanged.
Revoke(m) == granted' = IF devices'[m] = devices[m] THEN granted ELSE Ungrant(m)

(* --------------------------- AccessStateMachine ------------------------ *)

\* register(), POST: the device is already registered and active.
RegisterAlready(m) ==
    /\ Exists(m) /\ devices[m].status = "active"
    /\ Disturb
    /\ UNCHANGED <<LeaseVars, devices, users, reservations, nextTok, spentTokens, granted, RecVars,
                   config, requests, windows>>

\* register(), POST, scenario 1: outside the access window of the identity.
RegisterOutsideWindow(m, email) ==
    /\ ~(Exists(m) /\ devices[m].status = "active")
    /\ users[email] # NoUser
    /\ UserWindow(email) # "in"
    /\ Disturb
    /\ UNCHANGED <<LeaseVars, devices, users, reservations, nextTok, spentTokens, granted, RecVars,
                   config, requests, windows>>

\* register(), POST, scenario 1, email verification required.
RegisterVerify(m, email, octet) ==
    /\ ~(Exists(m) /\ devices[m].status = "active")
    /\ users[email] # NoUser
    /\ UserWindow(email) = "in"
    /\ nextTok <= MaxTokens
    /\ LET det == detect_connection_type(octet)
           base == IF Exists(m) THEN devices[m] ELSE NewDevice
           dev == [base EXCEPT !.user = email, !.conn = det.conn, !.vlan = det.vlan,
                               !.vtoken = nextTok, !.vleft = VerificationTimeoutMinutes,
                               !.status = "pending"]
       IN  devices' = [devices EXCEPT ![m] = dev]
    /\ nextTok' = nextTok + 1
    /\ granted' = Ungrant(m)
    /\ Disturb
    /\ UNCHANGED <<LeaseVars, users, reservations, spentTokens, RecVars, config, requests,
                   windows>>

\* The row register() commits on immediate activation (scenario 1).
ActivatedRow(base, email, det) ==
    [base EXCEPT !.user = email, !.conn = det.conn,
                 !.vlan = IF det.conn = "wired" THEN RoleVlan(users[email]) ELSE det.vlan,
                 !.status = "active",
                 !.utoken = IF det.conn = "wifi" THEN nextTok ELSE @]

\* register(), POST, scenario 1, immediate activation: commit, then
\* register_mac for wifi, send_coa_change for wired, nothing otherwise.
RegisterActivate(m, email, octet, io) ==
    /\ ~(Exists(m) /\ devices[m].status = "active")
    /\ users[email] # NoUser
    /\ UserWindow(email) = "in"
    /\ LET det == detect_connection_type(octet)
           wifi == det.conn = "wifi"
           reg == register_mac(reservations, m, det.vlan, KeaFault(io))
       IN  /\ wifi => nextTok <= MaxTokens
           /\ devices' = [devices EXCEPT ![m] =
                  ActivatedRow(IF Exists(m) THEN devices[m] ELSE NewDevice, email, det)]
           /\ nextTok' = IF wifi THEN nextTok + 1 ELSE nextTok
           /\ reservations' = IF wifi THEN reg.tbl ELSE reservations
           /\ granted' = IF wifi /\ reg.ok
                         THEN Ungrant(m) \cup {[mac |-> m, text |-> reg.text]}
                         ELSE Ungrant(m)
    /\ Disturb
    /\ UNCHANGED <<LeaseVars, users, spentTokens, RecVars, config, requests, windows>>

\* register(), POST, scenario 2, auto-approve VLAN: a new identity and a new
\* Device row are inserted; the insert of a second row for the MAC violates
\* the unique constraint and the request fails with nothing committed.
RegisterAutoApprove(m, email, octet, io) ==
    /\ ~(Exists(m) /\ devices[m].status = "active")
    /\ users[email] = NoUser
    /\ LET det == detect_connection_type(octet)
           wifi == det.conn = "wifi"
           dev == [NewDevice EXCEPT !.user = email, !.conn = det.conn, !.vlan = det.vlan,
                                    !.status = "active",
                                    !.utoken = IF wifi THEN nextTok ELSE @]
           reg == register_mac(reservations, m, det.vlan, KeaFault(io))
       IN  /\ det.vlan \in get_auto_approve_vlans
           /\ IF Exists(m)
              THEN UNCHANGED <<config, requests, windows, devices, users, reservations,
                               nextTok, granted>>
              ELSE /\ wifi => nextTok <= MaxTokens
                   /\ users' = [users EXCEPT ![email] = "guests"]
                   /\ devices' = [devices EXCEPT ![m] = dev]
                   /\ nextTok' = IF wifi THEN nextTok + 1 ELSE nextTok
                   /\ reservations' = IF wifi THEN reg.tbl ELSE reservations
                   /\ granted' = IF wifi /\ reg.ok
                         THEN Ungrant(m) \cup {[mac |-> m, text |-> reg.text]}
                         ELSE Ungrant(m)
    /\ Disturb
    /\ UNCHANGED <<LeaseVars, spentTokens, RecVars, config, requests, windows>>

\* The columns of the RegistrationRequest model (models.py).
RegistrationRequestColumns ==
    {"id", "mac_address", "email", "first_name", "last_name", "phone_number", "ip_address",
     "user_agent", "status", "approval_token", "submitted_at", "processed_at", "processed_by",
     "notes"}

\* The keywords register() passes to the RegistrationRequest constructor.
RequestKeywords ==
    {"mac_address", "email", "first_name", "last_name", "phone_number", "device_type",
     "ip_address", "user_agent", "approval_token"}

\* RegistrationRequest(**kw), then add and commit: the declarative constructor
\* raises TypeError on a keyword that is no attribute of the model, and then
\* no row is added; otherwise one row, status 'pending' by the column default.
SubmittedRequests(m, email) ==
    IF RequestKeywords \subseteq RegistrationRequestColumns
    THEN {[mac |-> m, email |-> email, status |-> "pending"]}
    ELSE {}

\* register(), POST, scenario 2, admin approval required: the request row is
\* built and committed; no device row is touched and no client is called.
RegisterRequest(m, email, octet) ==
    /\ ~(Exists(m) /\ devices[m].status = "active")
    /\ users[email] = NoUser
    /\ detect_connection_type(octet).vlan \notin get_auto_approve_vlans
    /\ requests' = requests \cup SubmittedRequests(m, email)
    /\ Disturb
    /\ UNCHANGED <<LeaseVars, config, windows, devices, users, reservations, nextTok, spentTokens, granted,
                   RecVars>>

\* verify(): the token matches no device.
VerifyInvalid(token) ==
    /\ ByVerificationToken(token) = {}
    /\ Disturb
    /\ UNCHANGED <<LeaseVars, devices, users, reservations, nextTok, spentTokens, granted, RecVars,
                   config, requests, windows>>

\* The row verify() commits for a matched device: restricted when the link
\* has expired, active when the device has an owner, else unchanged.
VerifiedRow(d) ==
    IF d.vleft < 0
    THEN [d EXCEPT !.status = "restricted", !.vlan = get_vlan_map["restricted"]]
    ELSE IF d.user # NoUser
    THEN [d EXCEPT !.status = "active", !.vlan = RoleVlan(users[d.user]),
                   !.vtoken = NoToken, !.vleft = 0]
    ELSE d

\* verify(): the token matches a device; the CoA result is not looked at
\* on expiry and only chooses the message on success.
VerifyMatched(token, io) ==
    /\ ByVerificationToken(token) # {}
    /\ LET m == CHOOSE x \in ByVerificationToken(token) : TRUE
       IN  /\ devices' = [devices EXCEPT ![m] = VerifiedRow(devices[m])]
           /\ Revoke(m)
    /\ spentTokens' = spentTokens \cup {<<"verify", token>>}
    /\ Disturb
    /\ UNCHANGED <<LeaseVars, users, reservations, nextTok, RecVars, config, requests, windows>>

\* unregister(token): the token matches no device.
UnregisterInvalid(token) ==
    /\ ByUnregisterToken(token) = {}
    /\ Disturb
    /\ UNCHANGED <<LeaseVars, devices, users, reservations, nextTok, spentTokens, granted, RecVars,
                   config, requests, windows>>

\* A handler that would leave the unregister token on the row.
UnregisteredRow_KeepsToken(d) == [d EXCEPT !.status = "unregistered", !.user = NoUser]

\* The VLAN unregister(token) asks for in its CoA change for a wired device.
UnregisterCoaVlan == get_vlan_map["unregistered"]

\* The row unregister(token) commits.
UnregisteredRow(d) ==
    [d EXCEPT !.status = "unregistered", !.utoken = NoToken, !.user = NoUser]

\* unregister(token): dispatch by connection type, then commit.
UnregisterMatched(token, io) ==
    /\ ByUnregisterToken(token) # {}
    /\ LET m == CHOOSE x \in ByUnregisterToken(token) : TRUE
           d == devices[m]
       IN  /\ reservations' = IF d.conn = "wifi" /\ d.vlan # NoVlan
                              THEN unregister_mac(reservations, m, d.vlan, KeaFault(io)).tbl
                              ELSE reservations
           /\ devices' = [devices EXCEPT ![m] = UnregisteredRow(d)]
           /\ granted' = Ungrant(m)
    /\ spentTokens' = spentTokens \cup {<<"unregister", token>>}
    /\ Disturb
    /\ UNCHANGED <<LeaseVars, users, nextTok, RecVars, config, requests, windows>>

\* unregister(token) for a wifi device when the DHCP server accepts the
\* connection and never answers: unregister_mac does not return, the lines
\* after it (status, token, commit) are not reached.
UnregisterStalled(token) ==
    /\ ByUnregisterToken(token) # {}
    /\ LET m == CHOOSE x \in ByUnregisterToken(token) : TRUE
           d == devices[m]
       IN  /\ d.conn = "wifi" /\ d.vlan # NoVlan
           /\ ClientCall("silent") = "pending"
           /\ lastCall' = [op |-> "unregister_mac", mac |-> m, returned |-> FALSE]
    /\ UNCHANGED <<devices, users, windows, reservations, nextTok, spentTokens, granted,
                   RecVars, requests, config, passState, leases>>

\* The row admin_disconnect_device leaves, given the result of the
\* Disconnect-Request.
DisconnectedRow(d, success) ==
    IF success
    THEN [d EXCEPT !.status = "disconnected", !.vlan = get_vlan_map["unregistered"]]
    ELSE d

\* admin_disconnect_device(device_id)
AdminDisconnect(m, io) ==
    /\ Exists(m)
    /\ devices' = [devices EXCEPT ![m] = DisconnectedRow(devices[m], send_coa_disconnect(CoaReply(io)))]
    /\ Revoke(m)
    /\ Disturb
    /\ UNCHANGED <<LeaseVars, users, reservations, nextTok, spentTokens, RecVars, config,
                   requests, windows>>

\* A block that would stamp first_seen anew.
BlockedRow_ResetsFirstSeen(d) ==
    [d EXCEPT !.status = "blocked", !.vlan = get_vlan_map["restricted"], !.age = 0]

\* The row admin_block_device commits.
BlockedRow(d) == [d EXCEPT !.status = "blocked", !.vlan = get_vlan_map["restricted"]]

\* admin_block_device(device_id): commit, then unregister_mac for wifi (with
\* the VLAN just written), Disconnect-Request for wired.
AdminBlock(m, io) ==
    /\ Exists(m)
    /\ LET d == BlockedRow(devices[m])
       IN  /\ devices' = [devices EXCEPT ![m] = d]
           /\ reservations' = IF d.conn = "wifi"
                              THEN unregister_mac(reservations, m, d.vlan, KeaFault(io)).tbl
                              ELSE reservations
    /\ granted' = Ungrant(m)
    /\ Disturb
    /\ UNCHANGED <<LeaseVars, users, nextTok, spentTokens, RecVars, config, requests, windows>>

\* The row admin_unblock_device commits.
UnblockedRow(d) ==
    [d EXCEPT !.status = "active",
              !.vlan = IF d.user # NoUser THEN RoleVlan(users[d.user])
                       ELSE get_vlan_map["guests"]]

\* admin_unblock_device(device_id): commit, then register_mac for wifi,
\* send_coa_change for wired.
AdminUnblock(m, io) ==
    /\ Exists(m)
    /\ LET d == UnblockedRow(devices[m])
       IN  /\ devices' = [devices EXCEPT ![m] = d]
           /\ reservations' = IF d.conn = "wifi"
                              THEN register_mac(reservations, m, d.vlan, KeaFault(io)).tbl
                              ELSE reservations
    /\ Revoke(m)
    /\ Disturb
    /\ UNCHANGED <<LeaseVars, users, nextTok, spentTokens, RecVars, config, requests, windows>>

\* Where the dates an administrator stores put today: inside the window, or
\* past expiry_date.
WINDOWS == {"in", "after"}

\* admin_edit_user(user_id), POST: the role and the dates are stored, then
\* every active device of the user gets the VLAN of the role and a
\* CoA-Request, whatever its connection type; the result of the CoA is not
\* looked at.
EditedRow(d, email, role) ==
    IF d # NoDevice /\ d.user = email /\ d.status = "active"
    THEN [d EXCEPT !.vlan = RoleVlan(role)]
    ELSE d

AdminEditUser(email, role, window) ==
    /\ users[email] # NoUser
    /\ users' = [users EXCEPT ![email] = role]
    /\ windows' = [windows EXCEPT ![email] = window]
    /\ devices' = [m \in MACS |-> EditedRow(devices[m], email, role)]
    /\ granted' = {g \in granted : devices'[g.mac] = devices[g.mac]}
    /\ Disturb
    /\ UNCHANGED <<LeaseVars, reservations, nextTok, spentTokens, RecVars, config, requests>>

\* admin_delete_device(device_id): unregister from the network, delete the row.
AdminDelete(m, io) ==
    /\ Exists(m)
    /\ LET d == devices[m]
       IN  reservations' = IF d.conn = "wifi"
                           THEN unregister_mac(reservations, m, d.vlan, KeaFault(io)).tbl
                           ELSE reservations
    /\ devices' = [devices EXCEPT ![m] = NoDevice]
    /\ granted' = Ungrant(m)
    /\ Disturb
    /\ UNCHANGED <<LeaseVars, users, nextTok, spentTokens, RecVars, config, requests, windows>>

\* The forms posted to admin_vlan_config: every field as the page shows it by
\* default (guests, students and volunteers ticked for auto-approval), except
\* the VLAN of 'staff' and its auto-approve tick.
FORMS ==
    {[vlan_staff |-> VLAN_STAFF, auto_approve_staff |-> FALSE],
     [vlan_staff |-> WIRED_VLAN, auto_approve_staff |-> TRUE]}

\* admin_vlan_config(), POST: the mapping rows are rewritten, then the setting
\* 'auto_approve_vlans' is the list of the VLANs of the ticked roles.
AdminVlanConfig(form) ==
    /\ config' = [staff |-> form.vlan_staff,
                  auto |-> DefaultConfig.auto \cup
                           (IF form.auto_approve_staff THEN {form.vlan_staff} ELSE {})]
    /\ Disturb
    /\ UNCHANGED <<LeaseVars, devices, users, windows, reservations, nextTok, spentTokens, granted, recPc,
                   recQueue, requests>>

\* The protocol client a handler invokes for the device row d it has
\* loaded (for register: the row with the connection type just detected):
\* "dhcp" (KeaIntegration), "radius" (send_coa_change / send_coa_disconnect)
\* or "none".
HANDLERS == {"register", "verify", "unregister", "disconnect", "block", "unblock",
             "delete", "edit_user"}

ByConnectionType(d) ==
    IF d.conn = "wifi" THEN "dhcp" ELSE IF d.conn = "wired" THEN "radius" ELSE "none"

DispatchedClient(h, d) ==
    CASE h = "register" -> ByConnectionType(d)
      [] h = "verify" -> IF d.vtoken # NoToken /\ (d.vleft < 0 \/ d.user # NoUser)
                         THEN "radius" ELSE "none"
      [] h = "unregister" -> IF d.utoken = NoToken THEN "none"
                             ELSE IF d.conn = "wifi"
                                  THEN (IF d.vlan # NoVlan THEN "dhcp" ELSE "none")
                             ELSE ByConnectionType(d)
      [] h = "disconnect" -> "radius"
      [] h = "block" -> ByConnectionType(d)
      [] h = "unblock" -> ByConnectionType(d)
      [] h = "delete" -> ByConnectionType(d)
      [] h = "edit_user" -> IF d.user # NoUser /\ d.status = "active"
                            THEN "radius" ELSE "none"

\* The clock advances by TickMinutes: every row ages and every pending
\* verification link comes closer to (or passes) its expiry.
Aged(d) ==
    IF d = NoDevice THEN d
    ELSE [d EXCEPT !.age = IF @ = NoAge THEN @ ELSE Min(@ + TickMinutes, MaxAge),
                   !.vleft = IF d.vtoken = NoToken THEN @
                             ELSE IF @ - TickMinutes < 0 THEN -1 ELSE @ - TickMinutes]

Tick ==
    /\ devices' = [m \in MACS |-> Aged(devices[m])]
    /\ devices' # devices
    /\ Disturb
    /\ UNCHANGED <<LeaseVars, users, reservations, nextTok, spentTokens, granted, RecVars,
                   config, requests, windows>>

(* ------------------------------ PoolReconciler ------------------------- *)

\* One row of get_devices_needing_update: vlan defaults to 99, the age is
\* computed by the query, in seconds.
SyncRow(m) ==
    [mac |-> m, status |-> devices[m].status,
     vlan |-> IF devices[m].vlan = NoVlan THEN SYNC_DEFAULT_VLAN ELSE devices[m].vlan,
     age_seconds |-> AgeSeconds(devices[m].age)]

\* The result sets the query may return: every row, ORDER BY first_seen DESC
\* (youngest first; rows of equal first_seen in either order).
get_devices_needing_update ==
    LET present == {m \in MACS : Exists(m)}
        n == Cardinality(present)
    IN  {q \in [1..n -> present] :
            /\ \A i, j \in 1..n : i # j => q[i] # q[j]
            /\ \A i, j \in 1..n : i < j => devices[q[i]].age <= devices[q[j]].age}

\* KeaSync.get_existing_reservation
get_existing_reservation(tbl, mac, subnet, fault) ==
    LET resp == KeaGet(tbl, mac, subnet, fault)
    IN  IF resp.answered /\ resp.result = 0 THEN resp.res ELSE NoRes

\* The client-class add_reservation writes for a pool.
ClassOf(pool) ==
    IF pool = "registered" THEN "REGISTERED"
    ELSE IF pool = "newly_unregistered" THEN "NEWLY_UNREGISTERED"
    ELSE "OLD_UNREGISTERED"

\* KeaSync.add_reservation: result 0 and result 1 both count as success.
add_reservation(tbl, mac, subnet, pool, fault) ==
    LET res == [mac |-> mac, subnet |-> subnet, cls |-> ClassOf(pool), ctx |-> FALSE,
                dns |-> IF pool # "registered" THEN "portal" ELSE "none"]
        resp == KeaAdd(tbl, res, fault)
    IN  [tbl |-> resp.tbl, ok |-> resp.answered /\ resp.result \in {0, 1}]

\* KeaSync.remove_reservation
remove_reservation(tbl, mac, subnet, fault) ==
    LET resp == KeaDel(tbl, mac, subnet, fault)
    IN  [tbl |-> resp.tbl, ok |-> resp.answered /\ resp.result \in {0, 3}]

\* A sync that would add a reservation for every device that has none, to
\* track its pool.
SyncPlan_TracksUnregistered(row, existing) ==
    IF existing = NoRes THEN "add"
    ELSE IF existing.cls # ClassOf(determine_pool(row)) THEN "remove"
    ELSE "done"

\* What sync_device does after reservation-get: "add" (a registered device
\* without a reservation), "remove" (then add: the class disagrees), "done".
SyncPlan(row, existing) ==
    LET pool == determine_pool(row)
    IN  IF pool = "registered" /\ existing = NoRes THEN "add"
        ELSE IF existing # NoRes /\ existing.cls # ClassOf(pool) THEN "remove"
        ELSE "done"

\* A loop that would start a pass while the previous one is still running.
PassStart_Overlapping ==
    /\ \E q \in get_devices_needing_update :
          /\ recQueue' = [i \in 1..Len(q) |-> SyncRow(q[i])]
          /\ recPc' = IF Len(q) = 0 THEN "idle" ELSE "get"
    /\ passState' = "clean"
    /\ UNCHANGED <<LeaseVars, config, requests, windows, devices, users, reservations, nextTok,
                   spentTokens, granted>>

\* sync_all: the pass reads the device table once.
PassStart ==
    /\ recPc = "idle"
    /\ \E q \in get_devices_needing_update :
          /\ recQueue' = [i \in 1..Len(q) |-> SyncRow(q[i])]
          /\ recPc' = IF Len(q) = 0 THEN "idle" ELSE "get"
    /\ passState' = "clean"
    /\ UNCHANGED <<LeaseVars, config, requests, windows, devices, users, reservations,
                   nextTok, spentTokens, granted>>

\* sync_all when the query raises: get_devices_needing_update logs the error
\* and returns [], the pass is over with nothing synced.
PassFailed ==
    /\ recPc = "idle"
    /\ recQueue' = <<>>
    /\ recPc' = "idle"
    /\ passState' = "dirty"
    /\ UNCHANGED <<LeaseVars, config, requests, windows, devices, users, reservations, nextTok,
                   spentTokens, granted>>

\* sync_device returned: on to the next row, or the pass is over.
NextDevice ==
    /\ recQueue' = Tail(recQueue)
    /\ recPc' = IF Len(recQueue) = 1 THEN "idle" ELSE "get"

Faulted(fault) == passState' = IF fault = "none" THEN passState ELSE "dirty"

\* A pass that a failed command would end: the exception leaves sync_all and
\* the loop.
SyncGet_Fatal(fault) ==
    /\ recPc = "get"
    /\ LET row == Head(recQueue)
           plan == SyncPlan(row, get_existing_reservation(reservations, row.mac, row.vlan, fault))
       IN  IF fault # "none" THEN recPc' = "stopped" /\ UNCHANGED recQueue
           ELSE IF plan = "done" THEN NextDevice
           ELSE recPc' = plan /\ UNCHANGED recQueue
    /\ Faulted(fault)
    /\ UNCHANGED <<LeaseVars, config, requests, windows, devices, users, reservations, nextTok,
                   spentTokens, granted>>

\* sync_device, up to its first change: determine_pool, reservation-get and
\* the choice of what to repair.
SyncGet(fault) ==
    /\ recPc = "get"
    /\ LET row == Head(recQueue)
           plan == SyncPlan(row, get_existing_reservation(reservations, row.mac, row.vlan, fault))
       IN  IF plan = "done" THEN NextDevice
           ELSE recPc' = plan /\ UNCHANGED recQueue
    /\ Faulted(fault)
    /\ UNCHANGED <<LeaseVars, config, requests, windows, devices, users, reservations,
                   nextTok, spentTokens, granted>>

\* sync_device: self.remove_reservation(mac, subnet_id), result not looked at.
SyncRemove(fault) ==
    /\ recPc = "remove"
    /\ LET row == Head(recQueue)
       IN  reservations' = remove_reservation(reservations, row.mac, row.vlan, fault).tbl
    /\ recPc' = "add"
    /\ Faulted(fault)
    /\ UNCHANGED <<LeaseVars, config, requests, windows, devices, users, nextTok,
                   spentTokens, granted, recQueue>>

\* A reconciler that would write the status of the row it has synced.
SyncAdd_WritesRow(fault) ==
    /\ recPc = "add"
    /\ LET row == Head(recQueue)
       IN  /\ reservations' =
                 add_reservation(reservations, row.mac, row.vlan, determine_pool(row), fault).tbl
           /\ devices' = [devices EXCEPT ![row.mac].status = "synced"]
    /\ NextDevice
    /\ Faulted(fault)
    /\ UNCHANGED <<LeaseVars, config, requests, windows, users, nextTok, spentTokens, granted>>

\* sync_device: return self.add_reservation(mac, subnet_id, pool, ...)
SyncAdd(fault) ==
    /\ recPc = "add"
    /\ LET row == Head(recQueue)
       IN  reservations' =
              add_reservation(reservations, row.mac, row.vlan, determine_pool(row), fault).tbl
    /\ NextDevice
    /\ Faulted(fault)
    /\ UNCHANGED <<LeaseVars, config, requests, windows, devices, users, nextTok,
                   spentTokens, granted>>

\* sync_device: the command in hand was sent to a peer that never answers;
\* send_kea_command does not return and the pass stays where it is.
SyncBlocked ==
    /\ recPc \in {"get", "remove", "add"}
    /\ send_kea_command("silent") = "blocks"
    /\ recPc' = "blocked"
    /\ passState' = "dirty"
    /\ UNCHANGED <<LeaseVars, config, requests, windows, devices, users, reservations, nextTok, spentTokens,
                   granted, recQueue>>

(* ------------------------------ lease renewal ------------------------- *)

\* force_lease_renewal(mac) as the specification's forceRenew(mac): no
\* address is passed, lookup and delete may each fail on their own.
ForceRenew(m, getFault, delFault) ==
    /\ \E resp \in KeaLeaseGet(leases, m, getFault) :
          LET r == force_lease_renewal(leases, reservations, m, NoIp, resp, delFault)
          IN  /\ leases' = r.leases
              /\ reservations' = r.tbl
              /\ lastCall' = [op |-> "forceRenew", mac |-> m, ok |-> r.ok, sent |-> r.sent]
    /\ UNCHANGED <<devices, users, windows, nextTok, spentTokens, granted, RecVars,
                   requests, config, passState>>

(* ------------------------------ specification -------------------------- *)

Machine ==
    \/ \E m \in CLIENTS : RegisterAlready(m)
    \/ \E m \in CLIENTS, e \in EMAILS : RegisterOutsideWindow(m, e)
    \/ \E m \in CLIENTS, e \in EMAILS, o \in DETECTED : RegisterVerify(m, e, o)
    \/ \E m \in CLIENTS, e \in EMAILS, o \in DETECTED, io \in IO : RegisterActivate(m, e, o, io)
    \/ \E m \in CLIENTS, e \in EMAILS, o \in DETECTED, io \in IO : RegisterAutoApprove(m, e, o, io)
    \/ \E m \in CLIENTS, e \in EMAILS, o \in DETECTED : RegisterRequest(m, e, o)
    \/ \E t \in TOKENS : VerifyInvalid(t)
    \/ \E t \in TOKENS, io \in IO : VerifyMatched(t, io)
    \/ \E t \in TOKENS : UnregisterInvalid(t)
    \/ \E t \in TOKENS, io \in IO : UnregisterMatched(t, io)
    \/ \E m \in CLIENTS, io \in IO : AdminDisconnect(m, io)
    \/ \E m \in CLIENTS, io \in IO : AdminBlock(m, io)
    \/ \E m \in CLIENTS, io \in IO : AdminUnblock(m, io)
    \/ \E m \in CLIENTS, io \in IO : AdminDelete(m, io)
    \/ \E e \in EDITED, r \in ROLES, w \in WINDOWS : AdminEditUser(e, r, w)
    \/ \E f \in FORMS : AdminVlanConfig(f)
    \/ Tick

Reconciler ==
    \/ PassStart
    \/ PassFailed
    \/ \E f \in KEA_FAULTS : SyncGet(f)
    \/ \E f \in KEA_FAULTS : SyncRemove(f)
    \/ \E f \in KEA_FAULTS : SyncAdd(f)

\* Handlers and the reconciler run concurrently.
Next == Machine \/ Reconciler

Spec == Init /\ [][Next]_vars

\* The request path alone: the reconciler never writes the devices table.
MachineSpec == Init /\ [][Machine]_vars

\* Passes over a quiescent database: requests arrive between passes only, and
\* the VLAN settings and the access windows stay as installed.
QuietNext ==
    \/ \E m \in CLIENTS : recPc = "idle" /\ RegisterAlready(m)
    \/ \E m \in CLIENTS, e \in EMAILS : recPc = "idle" /\ RegisterOutsideWindow(m, e)
    \/ \E m \in CLIENTS, e \in EMAILS, o \in DETECTED : recPc = "idle" /\ RegisterVerify(m, e, o)
    \/ \E m \in CLIENTS, e \in EMAILS, o \in DETECTED, io \in IO :
          recPc = "idle" /\ RegisterActivate(m, e, o, io)
    \/ \E m \in CLIENTS, e \in EMAILS, o \in DETECTED, io \in IO :
          recPc = "idle" /\ RegisterAutoApprove(m, e, o, io)
    \/ \E m \in CLIENTS, e \in EMAILS, o \in DETECTED : recPc = "idle" /\ RegisterRequest(m, e, o)
    \/ \E t \in TOKENS : recPc = "idle" /\ VerifyInvalid(t)
    \/ \E t \in TOKENS, io \in IO : recPc = "idle" /\ VerifyMatched(t, io)
    \/ \E t \in TOKENS : recPc = "idle" /\ UnregisterInvalid(t)
    \/ \E t \in TOKENS, io \in IO : recPc = "idle" /\ UnregisterMatched(t, io)
    \/ \E m \in CLIENTS, io \in IO : recPc = "idle" /\ AdminDisconnect(m, io)
    \/ \E m \in CLIENTS, io \in IO : recPc = "idle" /\ AdminBlock(m, io)
    \/ \E m \in CLIENTS, io \in IO : recPc = "idle" /\ AdminUnblock(m, io)
    \/ \E m \in CLIENTS, io \in IO : recPc = "idle" /\ AdminDelete(m, io)
    \/ \E e \in EDITED, r \in ROLES : recPc = "idle" /\ AdminEditUser(e, r, "in")
    \/ recPc = "idle" /\ Tick
    \/ Reconciler

QuietSpec == Init /\ [][QuietNext]_vars

\* KeaSync.run loops forever: sync_all, sleep, sync_all, ...  The reconciler
\* always takes its next step.
FairQuietSpec == QuietSpec /\ WF_vars(Reconciler)

\* The device rows a pass may find: pending or active, just seen, 30 minutes
\* old or without first_seen, wifi in the guest subnet or wired on the VLAN
\* of the owner's role.
PASS_ROWS ==
    {[NewDevice EXCEPT !.status = st, !.age = a, !.conn = c, !.user = "e1",
                       !.vlan = IF c = "wired" THEN VLAN_STAFF ELSE VLAN_GUESTS] :
        st \in {"pending", "active"}, a \in {0, PoolThresholdMinutes, NoAge},
        c \in {"wifi", "wired"}}

\* The reservation register_mac stores for the row of m.
PortalReservation(m) ==
    [mac |-> m, subnet |-> devices[m].vlan, cls |-> "none", ctx |-> TRUE, dns |-> "none"]

\* A database and a server as requests have left them, no pass running.
PassInit ==
    /\ devices \in [MACS -> PASS_ROWS \cup {NoDevice}]
    /\ reservations \in SUBSET {PortalReservation(m) : m \in {x \in MACS : Exists(x)}}
    /\ users = [e \in EMAILS |-> IF e = "e2" THEN NoUser ELSE "staff"]
    /\ windows = [e \in EMAILS |-> IF e = "e3" THEN "after" ELSE "in"]
    /\ nextTok = 1
    /\ spentTokens = {}
    /\ granted = {}
    /\ recPc = "idle"
    /\ recQueue = <<>>
    /\ requests = {}
    /\ config = DefaultConfig
    /\ passState = "dirty"
    /\ leases = NoLeases
    /\ lastCall = NoCall

\* The reconciler alone, over such a database.
PassSpec == PassInit /\ [][Reconciler]_vars

\* KeaSync.run loops for ever: the reconciler always takes its next step.
FairPassSpec == PassSpec /\ WF_vars(Reconciler)

\* Registration and unregistration requests racing the reconciler: the
\* handlers run between any two commands of a pass.
RaceNext ==
    \/ \E m \in CLIENTS, e \in EMAILS, o \in DETECTED, io \in IO : RegisterActivate(m, e, o, io)
    \/ \E t \in TOKENS, io \in IO : UnregisterMatched(t, io)
    \/ Reconciler

RaceSpec == Init /\ [][RaceNext]_vars

\* The same race, with a DHCP server that may stop answering its control
\* socket.
StallNext == RaceNext \/ SyncBlocked

StallSpec == Init /\ [][StallNext]_vars

\* The race of requests and reconciler, with a DHCP server that may stop
\* answering the portal.
HangNext == RaceNext \/ \E t \in TOKENS : UnregisterStalled(t)

HangSpec == Init /\ [][HangNext]_vars

\* The state-machine events of a wifi client (seen in the guest subnet), each
\* with its DHCP or RADIUS exchange served.
ServedNext ==
    \/ \E m \in CLIENTS, e \in EMAILS : RegisterVerify(m, e, VLAN_GUESTS)
    \/ \E m \in CLIENTS, e \in EMAILS : RegisterActivate(m, e, VLAN_GUESTS, "ok")
    \/ \E m \in CLIENTS, e \in EMAILS : RegisterAutoApprove(m, e, VLAN_GUESTS, "ok")
    \/ \E t \in TOKENS : VerifyMatched(t, "ok")
    \/ \E t \in TOKENS : UnregisterMatched(t, "ok")
    \/ \E m \in CLIENTS : AdminBlock(m, "ok")
    \/ \E m \in CLIENTS : AdminUnblock(m, "ok")
    \/ \E m \in CLIENTS : AdminDelete(m, "ok")
    \/ \E e \in EDITED, r \in ROLES : AdminEditUser(e, r, "in")
    \/ Tick

ServedSpec == Init /\ [][ServedNext]_vars

\* The reservation register_mac stores for MAC m in the guest subnet.
GuestReservation(m) ==
    [mac |-> m, subnet |-> VLAN_GUESTS, cls |-> "none", ctx |-> TRUE, dns |-> "none"]

\* A server holding any leases and any portal reservations, no device rows.
LeaseInit ==
    /\ devices = [m \in MACS |-> NoDevice]
    /\ users = [e \in EMAILS |-> IF e = "e2" THEN NoUser ELSE "staff"]
    /\ windows = [e \in EMAILS |-> IF e = "e3" THEN "after" ELSE "in"]
    /\ reservations \in SUBSET {GuestReservation(m) : m \in MACS}
    /\ nextTok = 1
    /\ spentTokens = {}
    /\ granted = {}
    /\ recPc = "idle"
    /\ recQueue = <<>>
    /\ requests = {}
    /\ config = DefaultConfig
    /\ passState = "dirty"
    /\ leases \in [LEASE_IPS -> MACS \cup {"free"}]
    /\ lastCall = NoCall

LeaseNext == \E m \in MACS, g \in KEA_FAULTS, d \in KEA_FAULTS : ForceRenew(m, g, d)

\* Lease renewals alone, against such a server.
LeaseSpec == LeaseInit /\ [][LeaseNext]_vars

(* ------------------------------- properties --------------------------- *)

\* Section 4.1 of the design: intendedPool(status, firstSeen, now).
IntendedPool(d) ==
    IF d.status = "active" THEN "registered"
    ELSE IF d.age < PoolThresholdMinutes THEN "newly_unregistered"
    ELSE "old_unregistered"

\* The reservations the server holds for a key.
AtKey(tbl, mac, subnet) == {r \in tbl : r.mac = mac /\ r.subnet = subnet}

\* A pass has run from start to end and nothing else has happened since it
\* started: no request, no clock tick, no failed command.
CleanPassDone == recPc = "idle" /\ passState = "clean"

\* C1: a device whose persisted status is active is mapped to the registered
\* pool, whatever its age, by get_pool_assignment and by determine_pool.
C1_ActiveIsRegistered ==
    \A m \in MACS :
        (Exists(m) /\ devices[m].status = "active") =>
            /\ get_pool_assignment(devices[m]) = "registered"
            /\ determine_pool(SyncRow(m)) = "registered"

\* C2: after a wifi registration without verification whose DHCP register
\* reported success, a complete pass over the unchanged device with every
\* command served leaves a registered-pool reservation at (mac, subnet).
C2_PassKeepsRegistered ==
    CleanPassDone =>
        \A g \in granted :
            \E r \in AtKey(reservations, g.mac, devices[g.mac].vlan) :
                LivePool(r) = "registered"

\* C3: after one pass in which every command succeeded, every reservation
\* at a device's key (mac, current_vlan) carries exactly the tag of the
\* device's intended pool, with portal DNS iff that pool is not registered,
\* and the key holds at most one reservation.
C3_PassCorrectsDrift ==
    CleanPassDone =>
        \A m \in MACS :
            Exists(m) =>
                /\ Cardinality(AtKey(reservations, m, SyncRow(m).vlan)) <= 1
                /\ \A r \in AtKey(reservations, m, SyncRow(m).vlan) :
                      /\ r.cls = ClassOf(IntendedPool(devices[m]))
                      /\ (r.dns = "portal") <=> (IntendedPool(devices[m]) # "registered")

\* C4: whenever an administrator disconnects a device and the
\* Disconnect-Request is not acknowledged (NAK or no reply), the row the
\* handler leaves still carries the new status, disconnected, and the
\* unregistered VLAN.
C4_DisconnectPersistsOnFailure ==
    \A m \in MACS, io \in IO \ {"ok"} :
        Exists(m) =>
            LET d == DisconnectedRow(devices[m], send_coa_disconnect(CoaReply(io)))
            IN  d.status = "disconnected" /\ d.vlan = get_vlan_map["unregistered"]

\* An active wifi device whose registration was not dispatched with success
\* has a reservation of its intended pool at its key.
Repaired ==
    \A m \in MACS :
        (Exists(m) /\ devices[m].conn = "wifi" /\ devices[m].status = "active"
                   /\ ~Granted(m)) =>
            \E r \in AtKey(reservations, m, devices[m].vlan) :
                LivePool(r) = IntendedPool(devices[m])

\* C5: once the channel stays available and the device records stop
\* changing (from some pass on, every pass is clean), the reconciler
\* eventually repairs a registration whose dispatch failed or never happened.
C5_EventuallyRepaired == <>[](passState = "clean") => <>[]Repaired

\* C6: once a verify call has matched a device with a token, whether the
\* link was valid or expired, no device carries that token any more.
C6_VerificationTokenSingleUse ==
    \A t \in TOKENS :
        <<"verify", t>> \in spentTokens => ByVerificationToken(t) = {}

\* C7: once an unregister call has matched a device with a token, whatever
\* the network dispatch returned, no device carries that token any more and
\* the device it matched has no owner; a second call with the token is the
\* no-match branch, which changes nothing and dispatches nothing.
C7_UnregisterTokenSingleUse ==
    \A t \in TOKENS :
        <<"unregister", t>> \in spentTokens =>
            /\ ByUnregisterToken(t) = {}
            /\ \A m \in MACS :
                  (Exists(m) /\ devices[m].status = "unregistered") =>
                      devices[m].user = NoUser /\ devices[m].utoken = NoToken

\* C7 witness: an unregister call matched a wifi device and its DHCP
\* dispatch failed: the reservation is still there, the token is spent.
C7_Witness ==
    \E t \in TOKENS, m \in MACS :
        /\ <<"unregister", t>> \in spentTokens
        /\ Exists(m) /\ devices[m].status = "unregistered" /\ devices[m].conn = "wifi"
        /\ AtKey(reservations, m, devices[m].vlan) # {}

\* C8: a step that takes a blocked device out of the blocked status is an
\* admin unblock (or the deletion of its row), and no other step taken on a
\* blocked device adds a reservation for it.
C8_BlockedUntilUnblock ==
    [][\A m \in MACS :
          (Exists(m) /\ devices[m].status = "blocked"
                     /\ ~(\E io \in IO : AdminUnblock(m, io))
                     /\ ~(\E io \in IO : AdminDelete(m, io))) =>
              /\ devices'[m] # NoDevice /\ devices'[m].status = "blocked"
              /\ {r \in reservations' : r.mac = m} \subseteq reservations]_vars

\* C9: a verify call with an unexpired token that matches a device whose
\* status is not pending leaves the status and the VLAN of the device as
\* they were.
C9_VerifyOnlyFromPending ==
    [][\A t \in TOKENS, io \in IO :
          VerifyMatched(t, io) =>
              \A m \in ByVerificationToken(t) :
                  (devices[m].status # "pending" /\ devices[m].vleft >= 0) =>
                      /\ devices'[m].status = devices[m].status
                      /\ devices'[m].vlan = devices[m].vlan]_vars

\* C10: on every table the server can hold, two register calls for the same
\* (mac, subnet), both served, both report success; the second is answered
\* with a non-zero result and a duplicate text, leaves the table as the
\* first left it, and the key holds exactly one reservation.  A registration
\* the server answered as duplicate has left exactly one reservation.
C10_RegisterIdempotent ==
    /\ \A m \in MACS, v \in SsidVlans :
          LET first == register_mac(reservations, m, v, "none")
              second == register_mac(first.tbl, m, v, "none")
          IN  /\ first.ok /\ second.ok
              /\ IsDuplicateText(second.text)
              /\ second.tbl = first.tbl
              /\ Cardinality(AtKey(second.tbl, m, v)) = 1
    /\ \A g \in granted :
          IsDuplicateText(g.text) =>
              Cardinality(AtKey(reservations, g.mac, devices[g.mac].vlan)) = 1

\* C10 witness: a device registered twice at the same key; the second
\* reservation-add was answered as duplicate and reported success.
C10_Witness ==
    \E g \in granted :
        /\ IsDuplicateText(g.text)
        /\ \E r \in AtKey(reservations, g.mac, devices[g.mac].vlan) : r.ctx

\* C11: on every table the server can hold and for every key, unregister
\* (the portal's unregister_mac and the reconciler's remove_reservation)
\* reports success when the server is reached, whether it deleted the
\* reservation (result 0) or found none (result 3); it leaves no reservation
\* for the key, and a second call reports success and leaves the table as
\* the first call left it.
C11_UnregisterIdempotent ==
    \A m \in MACS, v \in SsidVlans \cup {WIRED_VLAN} :
        LET once == unregister_mac(reservations, m, v, "none")
            twice == unregister_mac(once.tbl, m, v, "none")
            rem == remove_reservation(reservations, m, v, "none")
            rem2 == remove_reservation(rem.tbl, m, v, "none")
        IN  /\ once.ok /\ twice.ok /\ rem.ok /\ rem2.ok
            /\ KeaDel(reservations, m, v, "none").result =
                  (IF AtKey(reservations, m, v) # {} THEN 0 ELSE 3)
            /\ KeaDel(once.tbl, m, v, "none").result = 3
            /\ AtKey(once.tbl, m, v) = {}
            /\ twice.tbl = once.tbl
            /\ rem.tbl = once.tbl /\ rem2.tbl = rem.tbl
            /\ \A r \in reservations : (r.mac # m \/ r.subnet # v) => r \in once.tbl

\* C11 witness: a wifi device was unregistered by token and the server holds
\* no reservation for its key, so that one more unregister for the key is
\* answered "not found".
C11_Witness ==
    \E t \in TOKENS, m \in MACS :
        /\ <<"unregister", t>> \in spentTokens
        /\ Exists(m) /\ devices[m].status = "unregistered" /\ devices[m].conn = "wifi"
        /\ AtKey(reservations, m, devices[m].vlan) = {}
        /\ KeaDel(reservations, m, devices[m].vlan, "none").result = 3

\* C12: send_coa_change and send_coa_disconnect return a boolean for every
\* outcome of the exchange (they never raise), and it is TRUE exactly when
\* the reply code is CoA-ACK; so an admin disconnect, which commits only on
\* TRUE, writes the disconnected status only on CoA-ACK.
C12_CoaTrueIffAck ==
    /\ \A reply \in COA_REPLIES :
          /\ send_coa_change(reply) \in BOOLEAN
          /\ send_coa_disconnect(reply) \in BOOLEAN
          /\ send_coa_change(reply) <=> (reply = "ack")
          /\ send_coa_disconnect(reply) <=> (reply = "ack")
    /\ \A m \in MACS, reply \in COA_REPLIES :
          (Exists(m) /\ devices[m].status # "disconnected") =>
              ((DisconnectedRow(devices[m], send_coa_disconnect(reply)).status
                    = "disconnected") <=> (reply = "ack"))

\* C12 witness: an admin disconnect was acknowledged with CoA-ACK and the
\* handler committed the disconnected status.
C12_Witness ==
    \E m \in MACS :
        /\ Exists(m) /\ devices[m].status = "disconnected"
        /\ devices[m].vlan = get_vlan_map["unregistered"]

\* The address lies within .5 - .127 of the target subnet.
InRegisteredPool(ip, vlan) ==
    /\ ip.nparts = 4 /\ ip.numeric
    /\ ip.third = vlan
    /\ POOL_FIRST <= ip.last /\ ip.last <= POOL_LAST

\* C13: register with an explicit IP that does not lie within .5 - .127 of
\* the target subnet (octet out of range, another subnet, malformed) returns
\* failure without sending a command, and the table is unchanged.
C13_BadIpRejectedBeforeSend ==
    \A m \in MACS, v \in SsidVlans, fault \in KEA_FAULTS :
        \A ip \in IPS(v) :
            ~InRegisteredPool(ip, v) =>
                LET reg == register_mac_with_ip(reservations, m, v, ip, fault)
                IN  ~reg.sent /\ ~reg.ok /\ reg.tbl = reservations

\* C14: no step of the reconciler (the start of a pass, reservation-get,
\* reservation-del, reservation-add, served or failed) changes or deletes
\* a device row or an identity: only request handlers and the clock do.
C14_ReconcilerReadsOnly ==
    [][Reconciler => (devices' = devices /\ users' = users)]_vars

\* C14 witness: the reconciler has deleted and re-added the reservation of
\* a device whose row is there.
C14_Witness ==
    \E m \in MACS :
        /\ Exists(m)
        /\ \E r \in reservations : r.mac = m /\ ~r.ctx
        /\ recPc = "idle"

\* The live reservation of a wifi device agrees with its persisted status:
\* an active device has a reservation at (mac, current_vlan), and whatever
\* reservation the key holds is of the device's intended pool.
Agrees(m) ==
    /\ devices[m].status = "active" => AtKey(reservations, m, devices[m].vlan) # {}
    /\ \A r \in AtKey(reservations, m, devices[m].vlan) :
          LivePool(r) = IntendedPool(devices[m])

\* C15: however register and unregister requests were interleaved with the
\* reservation-get / -del / -add steps of the reconciler, once they have
\* finished and one further pass has run undisturbed, the live reservation
\* of every wifi device agrees with its persisted status.
C15_InterleavingsConverge ==
    CleanPassDone =>
        \A m \in MACS : (Exists(m) /\ devices[m].conn = "wifi") => Agrees(m)

\* Ages in minutes around the 30-minute boundary (10, 29, 30, 31, 40, ...).
AGES == {0, 10, PoolThresholdMinutes - 1, PoolThresholdMinutes,
         PoolThresholdMinutes + 1, 40}

\* C16: for every reachable device row whose status is not active, at every
\* age, both policies give newly_unregistered when the age is strictly less
\* than 30 minutes (1800 s for the reconciler: 1799 s is newly, 1800 s is
\* old) and old_unregistered otherwise; nothing but status and age enters
\* the result, and a clock tick changes the pool of such a row only from
\* newly_unregistered to old_unregistered.
C16_ThirtyMinuteBoundary ==
    \A m \in MACS :
        (Exists(m) /\ devices[m].status # "active") =>
            /\ \A a \in AGES :
                  LET expected == IF a < PoolThresholdMinutes THEN "newly_unregistered"
                                  ELSE "old_unregistered"
                  IN  /\ get_pool_assignment([devices[m] EXCEPT !.age = a]) = expected
                      /\ determine_pool([SyncRow(m) EXCEPT
                             !.age_seconds = a * SecondsPerMinute]) = expected
                      /\ \A c \in {"wifi", "wired", "unknown"} :
                            get_pool_assignment([devices[m] EXCEPT !.age = a, !.conn = c])
                                = expected
            /\ determine_pool([SyncRow(m) EXCEPT !.age_seconds = PoolThresholdSeconds - 1])
                  = "newly_unregistered"
            /\ determine_pool([SyncRow(m) EXCEPT !.age_seconds = PoolThresholdSeconds])
                  = "old_unregistered"
            /\ get_pool_assignment(devices[m]) = determine_pool(SyncRow(m))
            /\ get_pool_assignment(Aged(devices[m])) # get_pool_assignment(devices[m]) =>
                  /\ get_pool_assignment(devices[m]) = "newly_unregistered"
                  /\ get_pool_assignment(Aged(devices[m])) = "old_unregistered"

\* C16 witness: the clock has carried a device that is not active to an age
\* of exactly 30 minutes.
C16_Witness ==
    \E m \in MACS :
        /\ Exists(m) /\ devices[m].status # "active"
        /\ devices[m].age = PoolThresholdMinutes
        /\ get_pool_assignment(devices[m]) = "old_unregistered"

\* C17: whenever a handler dispatches a network action for a device, it
\* invokes the DHCP client iff the device's connection type is wifi and the
\* RADIUS client iff it is wired.
C17_ClientByConnectionType ==
    \A m \in MACS, h \in HANDLERS :
        (Exists(m) /\ DispatchedClient(h, devices[m]) # "none") =>
            /\ (DispatchedClient(h, devices[m]) = "dhcp") <=> (devices[m].conn = "wifi")
            /\ (DispatchedClient(h, devices[m]) = "radius") <=> (devices[m].conn = "wired")

\* C18: the current_vlan of an active wifi device is a subnet detected at a
\* registration from a wifi network, whatever role edits, verifications and
\* unblocks came after the registration.
C18_WifiVlanIsDetectedSubnet ==
    \A m \in MACS :
        (Exists(m) /\ devices[m].conn = "wifi" /\ devices[m].status = "active") =>
            \E o \in DETECTED :
                detect_connection_type(o) = [conn |-> "wifi", vlan |-> devices[m].vlan]

\* C19: whenever a wired device becomes active (it was absent or in another
\* status before the step), its current_vlan is the role-to-VLAN mapping of its
\* owner's role, the guest VLAN when the role is unmapped or there is no owner.
C19_WiredActiveGetsRoleVlan ==
    [][\A m \in MACS :
          (/\ devices'[m] # NoDevice
           /\ devices'[m].status = "active"
           /\ devices'[m].conn = "wired"
           /\ devices[m].status # "active") =>
              devices'[m].vlan =
                  IF devices'[m].user # NoUser THEN RoleVlan(users'[devices'[m].user])
                  ELSE get_vlan_map["guests"]]_vars

\* C20: in every state where a register event for an email with no identity
\* record can arrive on a VLAN outside the auto-approve set, handling it
\* leaves a pending approval record for that MAC and email.
C20_UnknownEmailLeavesPendingRecord ==
    \A m \in MACS, e \in EMAILS, o \in DETECTED :
        (/\ ~(Exists(m) /\ devices[m].status = "active")
         /\ users[e] = NoUser
         /\ detect_connection_type(o).vlan \notin get_auto_approve_vlans) =>
            [mac |-> m, email |-> e, status |-> "pending"] \in
                requests \cup SubmittedRequests(m, e)

\* C21: no control-channel call blocks for ever; in particular the reconciler
\* is never stuck in a command it has sent, whatever the peer does.
C21_NoCallBlocks == recPc # "blocked"

\* C22: no step moves a device to active while today lies outside the access
\* window of the identity that owns it.
C22_OutsideWindowIsInert ==
    [][\A m \in MACS :
          (/\ devices'[m] # NoDevice
           /\ devices'[m].status = "active"
           /\ devices[m].status # "active"
           /\ devices'[m].user # NoUser) =>
              windows'[devices'[m].user] = "in"]_vars

\* C23: once a device row has connection_type wifi or wired, no step changes
\* the connection_type of that row.
C23_ConnectionTypeStable ==
    [][\A m \in MACS :
          (/\ devices[m] # NoDevice
           /\ devices'[m] # NoDevice
           /\ devices[m].conn \in {"wifi", "wired"}) =>
              devices'[m].conn = devices[m].conn]_vars

C25_BlockRemovesReservation ==
    [][\A m \in MACS :
          (/\ devices[m] # NoDevice
           /\ devices[m].status = "active"
           /\ devices[m].conn = "wifi"
           /\ devices'[m] # NoDevice
           /\ devices'[m].status = "blocked"
           /\ unregister_mac(reservations, m, devices'[m].vlan, "none").ok
           /\ reservations' = unregister_mac(reservations, m, devices'[m].vlan, "none").tbl) =>
              AtKey(reservations', m, devices[m].vlan) = {}]_vars

\* C26: for every device row, the policy of the device record and the policy
\* of the reconciler give the same pool at every age, the 30-minute boundary
\* and a row without first_seen included.
C26_OnePoolPolicy ==
    \A m \in MACS :
        Exists(m) =>
            \A a \in AGES \cup {devices[m].age} :
                get_pool_assignment([devices[m] EXCEPT !.age = a]) =
                    determine_pool([SyncRow(m) EXCEPT !.age_seconds = AgeSeconds(a)])

\* C27: for every device row, a generic error answer of the server (result
\* non-zero, not 3, text not a duplicate) makes each wrapper report failure:
\* register_mac and unregister_mac of the portal, add_reservation and
\* remove_reservation of the reconciler.
C27_ProtocolErrorIsFailure ==
    \A m \in MACS :
        Exists(m) =>
            LET row == SyncRow(m)
            IN  /\ ~register_mac(reservations, m, row.vlan, "error").ok
                /\ ~unregister_mac(reservations, m, row.vlan, "error").ok
                /\ ~remove_reservation(reservations, row.mac, row.vlan, "error").ok
                /\ ~add_reservation(reservations, row.mac, row.vlan, determine_pool(row),
                                    "error").ok

\* C28: the reconciler sends no reservation-del and no reservation-add for a
\* device whose connection_type is wired.
C28_NoReservationsForWired ==
    [][(recPc \in {"remove", "add"} /\ recPc' # recPc) =>
          LET m == Head(recQueue).mac
          IN  Exists(m) => devices[m].conn # "wired"]_vars

\* C29: a pass starts only when the previous pass has finished, and within a
\* pass the devices are synced one at a time: the row in hand is the head of
\* the queue, and it leaves the queue only when its sync_device returns.
C29_PassesNeverOverlap ==
    [][/\ Len(recQueue') > Len(recQueue) => (recPc = "idle" /\ recQueue = <<>>)
       /\ (recQueue # <<>> /\ recQueue' # recQueue) =>
              (recQueue' = Tail(recQueue) /\ recPc \in {"get", "add"})
       /\ (recPc' = "idle") = (recQueue' = <<>>)]_vars

\* The second device of a pass is being synced, the first one is done.
C29_Witness ==
    /\ \A m \in MACS : Exists(m)
    /\ Len(recQueue) = 1
    /\ recPc \in {"remove", "add"}

C31_RenewDeletesOnlyLease ==
    [][(lastCall' # lastCall \/ leases' # leases) =>
          LET m == lastCall'.mac
          IN  /\ lastCall'.op = "forceRenew"
              /\ reservations' = reservations
              /\ \A ip \in LEASE_IPS :
                     leases'[ip] # leases[ip] => leases[ip] = m /\ leases'[ip] = "free"
              /\ (\A ip \in LEASE_IPS : leases[ip] # m)
                     => /\ ~lastCall'.ok
                        /\ \A i \in 1..Len(lastCall'.sent) : lastCall'.sent[i] # "lease4-del"
    ]_vars

\* A renewal has freed the lease of m1 while m2 keeps a lease and both keep
\* their reservations.
C31_Witness ==
    /\ lastCall.op = "forceRenew" /\ lastCall.mac = "m1" /\ lastCall.ok
    /\ \A ip \in LEASE_IPS : leases[ip] # "m1"
    /\ \E ip \in LEASE_IPS : leases[ip] = "m2"
    /\ reservations = {GuestReservation(m) : m \in MACS}

\* C32: when the reservation-add that ends the sync of a device is reported
\* as success, the reservation then live at (mac, subnet) serves the pool the
\* reconciler intends for the device.
C32_ReportedSyncIsReal ==
    [][recPc = "add" /\ recQueue' # recQueue =>
          LET row == Head(recQueue)
              pool == determine_pool(row)
              live == Lookup(reservations', row.mac, row.vlan)
          IN  \A f \in KEA_FAULTS :
                 LET r == add_reservation(reservations, row.mac, row.vlan, pool, f)
                 IN  r.tbl = reservations' /\ r.ok
                        => live # NoRes /\ live.cls = ClassOf(pool)
    ]_vars

\* C33: every reservation of the MAC of a wifi device row lies in the subnet
\* of the row's persisted current_vlan (so in at most one subnet), when every
\* event's dispatch succeeded.
C33_ReservationFollowsVlan ==
    \A m \in MACS :
        Exists(m) /\ devices[m].conn = "wifi" =>
            \A r \in reservations : r.mac = m => r.subnet = devices[m].vlan

\* C34: for a MAC that already has a row which is not active, a registration
\* by an unknown identity from an auto-approve VLAN completes: the request
\* can commit, and leaves the row of the MAC active.
C34_GrantUpdatesExistingRow ==
    \A m \in CLIENTS, e \in EMAILS :
        Exists(m) /\ devices[m].status # "active" /\ users[e] = NoUser
        /\ nextTok <= MaxTokens /\ VLAN_GUESTS \in get_auto_approve_vlans
        => ENABLED (RegisterAutoApprove(m, e, VLAN_GUESTS, "ok")
                    /\ devices'[m].status = "active")

\* C35: when a wired device is unregistered by token, the current_vlan the
\* handler leaves on the row is the VLAN it has just requested for the
\* device in its CoA change.
C35_RecordShowsLastCoaVlan ==
    [][\A t \in TOKENS :
          (ByUnregisterToken(t) # {} /\ <<"unregister", t>> \in spentTokens'
           /\ devices' # devices)
          => \A m \in ByUnregisterToken(t) :
                devices[m].conn = "wired" => devices'[m].vlan = UnregisterCoaVlan
    ]_vars

\* C36: over any step (a request handler or a clock tick) that leaves a
\* device row in place and not active before and after, first_seen is not
\* rewritten and the pool of the row, by the portal's policy and by the
\* reconciler's, either stays or moves from newly_unregistered to
\* old_unregistered; it never moves back.
C36_PoolMovesOnceForward ==
    [][\A m \in MACS :
          (Exists(m) /\ devices'[m] # NoDevice
           /\ devices[m].status # "active" /\ devices'[m].status # "active")
          => LET before == get_pool_assignment(devices[m])
                 after  == get_pool_assignment(devices'[m])
                 row    == SyncRow(m)
                 rowNew == [row EXCEPT !.status = devices'[m].status,
                                       !.age_seconds = AgeSeconds(devices'[m].age)]
             IN  /\ devices'[m].age >= devices[m].age
                 /\ before = "old_unregistered" => after = "old_unregistered"
                 /\ after # before =>
                        before = "newly_unregistered" /\ after = "old_unregistered"
                 /\ determine_pool(row) = "old_unregistered"
                        => determine_pool(rowNew) = "old_unregistered"
    ]_vars

\* A row that aged past the threshold while pending has since been blocked
\* and is still in the old pool.
C36_Witness ==
    \E m \in MACS :
        /\ Exists(m) /\ devices[m].status = "blocked"
        /\ devices[m].vtoken # NoToken
        /\ devices[m].age >= PoolThresholdMinutes
        /\ get_pool_assignment(devices[m]) = "old_unregistered"

\* Every reservation at a device's key serves the device's intended pool, and
\* a device without one is not meant for the registered pool.
Consistent ==
    \A m \in MACS :
        Exists(m) =>
            LET rs == AtKey(reservations, m, SyncRow(m).vlan)
            IN  /\ \A r \in rs : LivePool(r) = IntendedPool(devices[m])
                /\ rs = {} => IntendedPool(devices[m]) # "registered"

\* C37: in a pass over an unchanged, consistent state with every command
\* served, the reservation-get for the next device is followed by neither a
\* reservation-del nor a reservation-add.
C37_PassIsFixpoint ==
    (recPc = "get" /\ passState = "clean" /\ Consistent) =>
        LET row == Head(recQueue)
        IN  SyncPlan(row, get_existing_reservation(reservations, row.mac, row.vlan, "none"))
                = "done"

\* C38: when the reconciler syncs a device that it places in an unregistered
\* pool and that has no reservation at (mac, current_vlan), the sync ends
\* after the reservation-get with the table untouched; a reservation-add
\* follows a reservation-get directly only for a device it places in the
\* registered pool, and a reservation appears at an empty key only by the
\* reconciler's reservation-add for that key.
C38_NoReservationFromNothing ==
    [][/\ recPc = "get" =>
             LET row == Head(recQueue)
                 pool == determine_pool(row)
             IN  /\ (pool # "registered" /\ AtKey(reservations, row.mac, row.vlan) = {})
                       => recPc' \in {"get", "idle"} /\ recQueue' = Tail(recQueue)
                          /\ reservations' = reservations
                 /\ recPc' = "add" => pool = "registered"
       /\ \A m \in MACS, v \in {VLAN_GUESTS, VLAN_STAFF} :
             (AtKey(reservations, m, v) = {} /\ AtKey(reservations', m, v) # {})
             => recPc = "add" /\ Head(recQueue).mac = m /\ Head(recQueue).vlan = v
    ]_vars

\* A pass with every command served has ended over a pending device that has
\* no reservation, next to one whose reservation the pass has re-tagged.
C38_Witness ==
    /\ CleanPassDone
    /\ \E m \in MACS :
          /\ Exists(m) /\ devices[m].status = "pending"
          /\ AtKey(reservations, m, SyncRow(m).vlan) = {}
    /\ \E r \in reservations : r.cls # "none"

\* C39: every DHCP client call a handler dispatches comes back to the handler
\* (with false or no record on failure), so that unregister(token) goes on to
\* its commit.
C39_ClientCallReturns ==
    lastCall.op = "unregister_mac" => lastCall.returned

====
